---- MODULE Spec2Model ----
(***************************************************************************)
(* A model of whitenoise/base.py: the WhiteNoise request layer (static and *)
(* autorefresh lookup, pass-through, serve) and the HashedEtagWhiteNoise   *)
(* subclass (ETag header computation, If-None-Match / If-Modified-Since    *)
(* evaluation).                                                            *)
(*                                                                         *)
(* Python strings are sequences of one-character strings, so that split,   *)
(* strip, startswith, slicing and posixpath.normpath are computed as the   *)
(* library computes them.  An optional value (None or x) is <<>> or <<x>>. *)
(***************************************************************************)
EXTENDS Integers, Sequences, FiniteSets, TLC

(* ------------------------------------------------------------------ *)
(* Bounds of the model                                                 *)
(* ------------------------------------------------------------------ *)

\* longest request url, in characters
MaxUrlLen == 4
\* most add_files calls in one run
MaxMounts == 2
\* most comma-separated tokens in an If-None-Match header
MaxTags == 3

(* ------------------------------------------------------------------ *)
(* Python values                                                       *)
(* ------------------------------------------------------------------ *)

None == <<>>
Some(x) == <<x>>
IsNone(o) == Len(o) = 0
Get(o) == o[1]

\* "abc"[n:]
Drop(s, n) == SubSeq(s, n + 1, Len(s))

\* s.startswith(p)
StartsWith(s, p) == Len(s) >= Len(p) /\ SubSeq(s, 1, Len(p)) = p

\* s.split(sep) for a one-character separator: a sequence of strings
RECURSIVE Split(_, _)
Split(s, sep) ==
    IF \A i \in 1..Len(s) : s[i] # sep
    THEN <<s>>
    ELSE LET k == CHOOSE i \in 1..Len(s) :
                      s[i] = sep /\ \A j \in 1..(i - 1) : s[j] # sep
         IN <<SubSeq(s, 1, k - 1)>> \o Split(Drop(s, k), sep)

\* sep.join(parts)
RECURSIVE StrJoin(_, _)
StrJoin(parts, sep) ==
    IF Len(parts) = 0 THEN <<>>
    ELSE IF Len(parts) = 1 THEN parts[1]
    ELSE parts[1] \o sep \o StrJoin(Tail(parts), sep)

\* str.isspace of one character: blank, tab, line feed, vertical tab, form
\* feed, carriage return, the separators FS, GS, RS and US, next line
\* (U+0085) and no-break space (U+00A0); the whitespace above U+00FF that
\* str.isspace also accepts cannot be written in a string here
IsSpace(c) ==
    c \in {" ", "\t", "\n", "\r", "\f", "", "", "", "", "",
          "", " "}

\* s.lstrip(), s.rstrip(), s.strip()
RECURSIVE LStrip(_)
LStrip(s) == IF Len(s) > 0 /\ IsSpace(s[1]) THEN LStrip(Tail(s)) ELSE s
RECURSIVE RStrip(_)
RStrip(s) ==
    IF Len(s) > 0 /\ IsSpace(s[Len(s)]) THEN RStrip(SubSeq(s, 1, Len(s) - 1))
    ELSE s
Strip(s) == RStrip(LStrip(s))

\* s.strip('/')
RECURSIVE StripSlashes(_)
StripSlashes(s) ==
    IF Len(s) > 0 /\ s[1] = "/" THEN StripSlashes(Tail(s))
    ELSE IF Len(s) > 0 /\ s[Len(s)] = "/"
         THEN StripSlashes(SubSeq(s, 1, Len(s) - 1))
    ELSE s

\* str(n) for n >= 0: the decimal digits
DigitChar(d) == <<"0", "1", "2", "3", "4", "5", "6", "7", "8", "9">>[d + 1]
RECURSIVE str(_)
str(n) == IF n < 10 THEN <<DigitChar(n)>>
          ELSE str(n \div 10) \o <<DigitChar(n % 10)>>

\* all strings over an alphabet of at most n characters
RECURSIVE StringsUpTo(_, _)
StringsUpTo(alphabet, n) ==
    IF n = 0 THEN {<<>>}
    ELSE LET shorter == StringsUpTo(alphabet, n - 1)
         IN shorter \cup {Append(s, c) : s \in shorter, c \in alphabet}

(* ------------------------------------------------------------------ *)
(* posixpath                                                           *)
(* ------------------------------------------------------------------ *)

\* the loop of posixpath.normpath over the components
RECURSIVE NormComps(_, _, _)
NormComps(comps, new_comps, initial_slashes) ==
    IF Len(comps) = 0 THEN new_comps
    ELSE LET comp == comps[1]
             rest == Tail(comps)
         IN IF comp = <<>> \/ comp = <<".">>
            THEN NormComps(rest, new_comps, initial_slashes)
            ELSE IF comp # <<".", ".">>
                    \/ (initial_slashes = 0 /\ Len(new_comps) = 0)
                    \/ (Len(new_comps) > 0
                        /\ new_comps[Len(new_comps)] = <<".", ".">>)
            THEN NormComps(rest, Append(new_comps, comp), initial_slashes)
            ELSE IF Len(new_comps) > 0
            THEN NormComps(rest, SubSeq(new_comps, 1, Len(new_comps) - 1),
                           initial_slashes)
            ELSE NormComps(rest, new_comps, initial_slashes)

\* posixpath.normpath(path)
normpath(path) ==
    IF Len(path) = 0 THEN <<".">>
    ELSE LET initial_slashes ==
                 IF ~StartsWith(path, <<"/">>) THEN 0
                 ELSE IF StartsWith(path, <<"/", "/">>)
                         /\ ~StartsWith(path, <<"/", "/", "/">>)
                 THEN 2
                 ELSE 1
             comps == NormComps(Split(path, "/"), <<>>, initial_slashes)
             joined == StrJoin(comps, <<"/">>)
             out == [i \in 1..initial_slashes |-> "/"] \o joined
         IN IF Len(out) = 0 THEN <<".">> ELSE out

\* posixpath.join(a, b)
path_join(a, b) ==
    IF StartsWith(b, <<"/">>) THEN b
    ELSE IF Len(a) = 0 \/ a[Len(a)] = "/" THEN a \o b
    ELSE a \o <<"/">> \o b

(* ------------------------------------------------------------------ *)
(* email.utils: formatdate and parsedate                               *)
(*                                                                     *)
(* The text of an HTTP date is modelled by its fields,                 *)
(* <<"date", day, month, year, hour, minute, second>>; every other     *)
(* header value is a string of characters, which parsedate rejects.    *)
(* ------------------------------------------------------------------ *)

\* time.gmtime: the civil date of a day count since 1970-01-01, computed in
\* steps (era and day of era, year of era, day of year, month, day)
CivilYMD(y, m, d) ==
    [year |-> y + (IF m <= 2 THEN 1 ELSE 0), month |-> m, day |-> d]
CivilFromMp(y, doy, mp) ==
    CivilYMD(y, IF mp < 10 THEN mp + 3 ELSE mp - 9, doy - (153 * mp + 2) \div 5 + 1)
CivilFromDoy(y, doy) == CivilFromMp(y, doy, (5 * doy + 2) \div 153)
CivilFromYoe(era, doe, yoe) ==
    CivilFromDoy(yoe + era * 400, doe - (365 * yoe + yoe \div 4 - yoe \div 100))
CivilFromDoe(era, doe) ==
    CivilFromYoe(era, doe,
                 (doe - doe \div 1460 + doe \div 36524 - doe \div 146096) \div 365)
CivilFromDays(days) ==
    CivilFromDoe((days + 719468) \div 146097, (days + 719468) % 146097)

\* the text of a date from its civil date and its second of the day
DateText(c, r) ==
    <<"date", c.day, c.month, c.year, r \div 3600, (r % 3600) \div 60, r % 60>>

\* formatdate(timeval, usegmt=True), timeval a whole number of seconds
formatdate(timeval) ==
    DateText(CivilFromDays(timeval \div 86400), timeval % 86400)

\* parsedate(data): None, or the 9-tuple (year, month, day, hh, mm, ss, 0, 1, -1)
parsedate(data) ==
    IF Len(data) = 7 /\ data[1] = "date"
    THEN Some(<<data[4], data[3], data[2], data[5], data[6], data[7], 0, 1, -1>>)
    ELSE None

\* Python's a >= b on two tuples of integers of the same length
RECURSIVE TupleGE(_, _)
TupleGE(a, b) ==
    IF Len(a) = 0 THEN TRUE
    ELSE IF a[1] # b[1] THEN a[1] > b[1]
    ELSE TupleGE(Tail(a), Tail(b))

(* ------------------------------------------------------------------ *)
(* The filesystem                                                      *)
(* ------------------------------------------------------------------ *)

\* the directories that exist, as component sequences: /, /r, /q
Dirs == {<<>>, <<<<"r">>>>, <<<<"q">>>>}

\* the two directories an application mounts
Roots == {<<"/", "r">>, <<"/", "q">>}

\* the regular files that may exist: /a (outside both roots), /r/a, /q/a
FileUniverse == {<<"/", "a">>, <<"/", "r", "/", "a">>, <<"/", "q", "/", "a">>}

\* os.stat's st_mtime, in half seconds, and the bytes of each file
StMtime2(p) == IF p = <<"/", "a">> THEN 7 ELSE IF p = <<"/", "r", "/", "a">> THEN 119 ELSE 120
Content(p) == IF p = <<"/", "a">> THEN <<1>> ELSE IF p = <<"/", "r", "/", "a">> THEN <<2, 3>> ELSE <<4, 5, 6>>

\* the kernel's walk of an absolute path over its components: the component
\* sequence reached, or None when a step leaves the existing directories
RECURSIVE Walk(_, _)
Walk(comps, cur) ==
    IF Len(comps) = 0 THEN Some(cur)
    ELSE IF cur \notin Dirs THEN None
    ELSE LET c == comps[1]
         IN IF c = <<>> \/ c = <<".">> THEN Walk(Tail(comps), cur)
            ELSE IF c = <<".", ".">>
            THEN Walk(Tail(comps),
                      IF Len(cur) = 0 THEN cur ELSE SubSeq(cur, 1, Len(cur) - 1))
            ELSE Walk(Tail(comps), Append(cur, c))

\* the absolute path of a component sequence
AbsPath(comps) == <<"/">> \o StrJoin(comps, <<"/">>)

\* the regular file a walk ended at, or None
WalkedFile(f, w) ==
    IF IsNone(w) THEN None
    ELSE IF AbsPath(Get(w)) \in f THEN Some(AbsPath(Get(w)))
    ELSE None

\* the regular file an absolute path names in filesystem state f, or None
ResolveFile(f, path) ==
    IF ~StartsWith(path, <<"/">>) THEN None
    ELSE WalkedFile(f, Walk(Split(path, "/"), <<>>))

\* os.stat of a resolved regular file, MissingFileError when there is none
StatOf(r) ==
    IF IsNone(r) THEN [raise |-> "MissingFileError"]
    ELSE [raise |-> "", st_mtime2 |-> StMtime2(Get(r)),
          st_size |-> Len(Content(Get(r)))]

\* utils.stat_regular_file(path): the stat of a regular file, or MissingFileError
stat_regular_file(f, path) == StatOf(ResolveFile(f, path))

(* ------------------------------------------------------------------ *)
(* wsgiref.headers.Headers: an ordered list of <<name, value>>, names  *)
(* compared without regard to case                                     *)
(* ------------------------------------------------------------------ *)

\* name.lower(), for the header names the layer uses
LowerName(name) ==
    IF name \in {"ETag", "Etag"} THEN "etag" ELSE name

\* headers[name] = val
HeadersSet(headers, name, val) ==
    SelectSeq(headers, LAMBDA p : LowerName(p[1]) # LowerName(name))
        \o <<<<name, val>>>>

\* headers[name]: None when absent
HeadersGet(headers, name) ==
    LET hits == SelectSeq(headers, LAMBDA p : LowerName(p[1]) = LowerName(name))
    IN IF Len(hits) = 0 THEN None ELSE Some(hits[1][2])

(* ------------------------------------------------------------------ *)
(* WhiteNoise: configuration and header computation                    *)
(* ------------------------------------------------------------------ *)

\* WhiteNoise.FOREVER
FOREVER == 10 * 365 * 24 * 60 * 60
\* WhiteNoise.max_age
max_age == 60
\* WhiteNoise.allow_all_origins
allow_all_origins == TRUE

\* the two assignments of add_stat_headers, given the stat
StatHeaders(headers, file_stat) ==
    IF file_stat.raise # "" THEN [raise |-> file_stat.raise]
    ELSE [raise |-> "",
          headers |->
              HeadersSet(
                  HeadersSet(headers, "Last-Modified",
                             formatdate(file_stat.st_mtime2 \div 2)),
                  "Content-Length", str(file_stat.st_size))]

\* WhiteNoise.add_stat_headers: the headers, or MissingFileError
add_stat_headers(headers, f, path) ==
    StatHeaders(headers, stat_regular_file(f, path))

\* MediaTypes.get_type(path): no modelled file name has an extension, so
\* every file is 'application/octet-stream'
get_type(path) ==
    <<"a", "p", "p", "l", "i", "c", "a", "t", "i", "o", "n", "/",
      "o", "c", "t", "e", "t", "-", "s", "t", "r", "e", "a", "m">>

\* WhiteNoise.get_charset: self.charset for text/... and
\* application/javascript
get_charset(media_type) ==
    IF \/ StartsWith(media_type, <<"t", "e", "x", "t", "/">>)
       \/ media_type = <<"a", "p", "p", "l", "i", "c", "a", "t", "i", "o", "n", "/",
                         "j", "a", "v", "a", "s", "c", "r", "i", "p", "t">>
    THEN Some("utf-8") ELSE None

\* headers.add_header('Content-Type', str(media_type), **params)
ContentType(headers, media_type, charset) ==
    Append(headers,
           <<"Content-Type",
             IF IsNone(charset) THEN <<media_type>>
             ELSE <<media_type, "charset", Get(charset)>>>>)

\* WhiteNoise.add_mime_headers
add_mime_headers(headers, path) ==
    ContentType(headers, get_type(path), get_charset(get_type(path)))

\* WhiteNoise.is_immutable_file
is_immutable_file(path, url) == FALSE

\* WhiteNoise.add_cache_headers
add_cache_headers(headers, path, url) ==
    IF is_immutable_file(path, url)
    THEN HeadersSet(headers, "Cache-Control",
                    <<"max-age=", str(FOREVER), ", public, immutable">>)
    ELSE HeadersSet(headers, "Cache-Control",
                    <<"max-age=", str(max_age), ", public">>)

\* WhiteNoise.add_cors_headers
add_cors_headers(headers) ==
    IF allow_all_origins
    THEN HeadersSet(headers, "Access-Control-Allow-Origin", <<"*">>)
    ELSE headers

\* StaticFile.__init__ of static_file.py: the entry of a path and its headers
ParsedLastModified(lm) == IF IsNone(lm) THEN None ELSE parsedate(Get(lm))
StaticFile(path, headers) ==
    [cls |-> "StaticFile", path |-> path, headers |-> headers,
     last_modified |-> ParsedLastModified(HeadersGet(headers, "Last-Modified")),
     etag |-> None]

\* get_static_file after add_stat_headers: the other header steps, in order
AfterStat(stat, path, url) ==
    IF stat.raise # "" THEN [raise |-> stat.raise]
    ELSE [raise |-> "",
          headers |->
              add_cors_headers(
                  add_cache_headers(
                      add_mime_headers(stat.headers, path), path, url))]

\* return StaticFile(path, headers)
NewStaticFile(h, path) ==
    IF h.raise # "" THEN [raise |-> h.raise]
    ELSE [raise |-> "", value |-> StaticFile(path, h.headers)]

\* WhiteNoise.get_static_file: [raise, value]
get_static_file(f, path, url) ==
    NewStaticFile(AfterStat(add_stat_headers(<<>>, f, path), path, url), path)

(* ------------------------------------------------------------------ *)
(* HashedEtagWhiteNoise                                                *)
(* ------------------------------------------------------------------ *)

\* 32-bit words are pairs <<high, low>> of 16-bit halves
RECURSIVE And16(_, _)
And16(a, b) ==
    IF a = 0 \/ b = 0 THEN 0
    ELSE ((a % 2) * (b % 2)) + (2 * And16(a \div 2, b \div 2))
Or16(a, b) == a + b - And16(a, b)
Xor16(a, b) == a + b - 2 * And16(a, b)
And32(x, y) == <<And16(x[1], y[1]), And16(x[2], y[2])>>
Or32(x, y) == <<Or16(x[1], y[1]), Or16(x[2], y[2])>>
Xor32(x, y) == <<Xor16(x[1], y[1]), Xor16(x[2], y[2])>>
Not32(x) == <<65535 - x[1], 65535 - x[2]>>
\* x + y modulo 2^32
Add32(x, y) ==
    <<(x[1] + y[1] + ((x[2] + y[2]) \div 65536)) % 65536, (x[2] + y[2]) % 65536>>
\* x rotated left by c bits, 0 <= c < 16
RotHalf(hi, lo, c) ==
    <<((hi * 2^c) % 65536) + (lo \div 2^(16 - c)),
      ((lo * 2^c) % 65536) + (hi \div 2^(16 - c))>>
\* x rotated left by c bits, 0 < c < 32
leftrotate(x, c) ==
    IF c >= 16 THEN RotHalf(x[2], x[1], c - 16) ELSE RotHalf(x[1], x[2], c)

\* MD5's per-round shift amounts and constants floor(2^32 * abs(sin(i + 1)))
MD5Shift ==
    <<
      7, 12, 17, 22, 7, 12, 17, 22, 7, 12, 17, 22, 7, 12, 17, 22,
      5, 9, 14, 20, 5, 9, 14, 20, 5, 9, 14, 20, 5, 9, 14, 20,
      4, 11, 16, 23, 4, 11, 16, 23, 4, 11, 16, 23, 4, 11, 16, 23,
      6, 10, 15, 21, 6, 10, 15, 21, 6, 10, 15, 21, 6, 10, 15, 21>>
MD5Sine ==
    <<
      <<55146, 42104>>, <<59591, 46934>>, <<9248, 28891>>, <<49597, 52974>>,
      <<62844, 4015>>, <<18311, 50730>>, <<43056, 17939>>, <<64838, 38145>>,
      <<27008, 39128>>, <<35652, 63407>>, <<65535, 23473>>, <<35164, 55230>>,
      <<27536, 4386>>, <<64920, 29075>>, <<42617, 17294>>, <<18868, 2081>>,
      <<63006, 9570>>, <<49216, 45888>>, <<9822, 23121>>, <<59830, 51114>>,
      <<54831, 4189>>, <<580, 5203>>, <<55457, 59009>>, <<59347, 64456>>,
      <<8673, 52710>>, <<49975, 2006>>, <<62677, 3463>>, <<17754, 5357>>,
      <<43491, 59653>>, <<64751, 41976>>, <<26479, 729>>, <<36138, 19594>>,
      <<65530, 14658>>, <<34673, 63105>>, <<28061, 24866>>, <<64997, 14348>>,
      <<42174, 59972>>, <<19422, 53161>>, <<63163, 19296>>, <<48831, 48240>>,
      <<10395, 32454>>, <<60065, 10234>>, <<54511, 12421>>, <<1160, 7429>>,
      <<55764, 53305>>, <<59099, 39397>>, <<8098, 31992>>, <<50348, 22117>>,
      <<62505, 8772>>, <<17194, 65431>>, <<43924, 9127>>, <<64659, 41017>>,
      <<25947, 22979>>, <<36620, 52370>>, <<65519, 62589>>, <<34180, 24017>>,
      <<28584, 32335>>, <<65068, 59104>>, <<41729, 17172>>, <<19976, 4513>>,
      <<63315, 32386>>, <<48442, 62005>>, <<10967, 53947>>, <<60294, 54161>>>>

\* the non-linear function of round i
MD5Mix(i, b, c, d) ==
    IF i < 16 THEN Or32(And32(b, c), And32(Not32(b), d))
    ELSE IF i < 32 THEN Or32(And32(d, b), And32(Not32(d), c))
    ELSE IF i < 48 THEN Xor32(Xor32(b, c), d)
    ELSE Xor32(c, Or32(b, Not32(d)))
\* the message word round i reads
MD5Index(i) ==
    IF i < 16 THEN i
    ELSE IF i < 32 THEN (5 * i + 1) % 16
    ELSE IF i < 48 THEN (3 * i + 5) % 16
    ELSE (7 * i) % 16

\* the rounds from st.i to 63 on the state st = [a, b, c, d, i] with the
\* block's words m
RECURSIVE MD5Rounds(_, _)
MD5Rounds(st, m) ==
    IF st.i = 64 THEN st
    ELSE MD5Rounds(
             [a |-> st.d,
              b |-> Add32(st.b,
                          leftrotate(
                              Add32(Add32(MD5Mix(st.i, st.b, st.c, st.d), st.a),
                                    Add32(MD5Sine[st.i + 1],
                                          m[MD5Index(st.i) + 1])),
                              MD5Shift[st.i + 1])),
              c |-> st.b,
              d |-> st.c,
              i |-> st.i + 1],
             m)

\* the sixteen little-endian words of the 64-byte block at offset k
MD5Words(msg, k) ==
    [j \in 1..16 |->
        <<(msg[k + (4 * j)] * 256) + msg[k + (4 * j) - 1],
          (msg[k + (4 * j) - 2] * 256) + msg[k + (4 * j) - 3]>>]

\* the state before a block plus the state its rounds end in
MD5AddState(st, r) ==
    [a |-> Add32(st.a, r.a), b |-> Add32(st.b, r.b),
     c |-> Add32(st.c, r.c), d |-> Add32(st.d, r.d), i |-> 0]

\* the blocks from offset k on
RECURSIVE MD5Blocks(_, _, _)
MD5Blocks(st, msg, k) ==
    IF st.i = 0 /\ k >= Len(msg) THEN st
    ELSE MD5Blocks(MD5AddState(st, MD5Rounds(st, MD5Words(msg, k))), msg, k + 64)

\* the message padded: a 1 bit, zeros, and the bit length in 8 little-endian
\* bytes (contents of fewer than 2^20 bytes)
MD5Padded(bytes) ==
    bytes \o <<128>>
          \o [i \in 1..((119 - (Len(bytes) % 64)) % 64) |-> 0]
          \o <<(Len(bytes) * 8) % 256, ((Len(bytes) * 8) \div 256) % 256,
               (Len(bytes) * 8) \div 65536, 0, 0, 0, 0, 0>>

\* the four little-endian bytes of a word
WordBytes(x) == <<x[2] % 256, x[2] \div 256, x[1] % 256, x[1] \div 256>>

\* the sixteen bytes of a final state
MD5Bytes(st) ==
    WordBytes(st.a) \o WordBytes(st.b) \o WordBytes(st.c) \o WordBytes(st.d)

\* hashlib.md5(bytes).digest(): the sixteen bytes of the MD5 digest
md5_digest(bytes) ==
    MD5Bytes(MD5Blocks([a |-> <<26437, 8961>>, b |-> <<61389, 43913>>,
                        c |-> <<39098, 56574>>, d |-> <<4146, 21622>>, i |-> 0],
                       MD5Padded(bytes), 0))

\* the base64 alphabet
B64Chars ==
    <<"A", "B", "C", "D", "E", "F", "G", "H", "I", "J", "K", "L", "M",
      "N", "O", "P", "Q", "R", "S", "T", "U", "V", "W", "X", "Y", "Z",
      "a", "b", "c", "d", "e", "f", "g", "h", "i", "j", "k", "l", "m",
      "n", "o", "p", "q", "r", "s", "t", "u", "v", "w", "x", "y", "z",
      "0", "1", "2", "3", "4", "5", "6", "7", "8", "9", "+", "/">>

\* the characters of one group of one, two or three bytes, padded with '='
B64Group(g) ==
    IF Len(g) = 3
    THEN <<B64Chars[(g[1] \div 4) + 1],
           B64Chars[((g[1] % 4) * 16) + (g[2] \div 16) + 1],
           B64Chars[((g[2] % 16) * 4) + (g[3] \div 64) + 1],
           B64Chars[(g[3] % 64) + 1]>>
    ELSE IF Len(g) = 2
    THEN <<B64Chars[(g[1] \div 4) + 1],
           B64Chars[((g[1] % 4) * 16) + (g[2] \div 16) + 1],
           B64Chars[((g[2] % 16) * 4) + 1], "=">>
    ELSE <<B64Chars[(g[1] \div 4) + 1], B64Chars[((g[1] % 4) * 16) + 1], "=", "=">>

\* base64.b64encode(d).decode()
RECURSIVE b64encode(_)
b64encode(d) ==
    IF Len(d) = 0 THEN <<>>
    ELSE IF Len(d) <= 3 THEN B64Group(d)
    ELSE B64Group(SubSeq(d, 1, 3)) \o b64encode(SubSeq(d, 4, Len(d)))

\* '"{:s}"'.format(s): the quoted opaque validator
Quoted(s) == <<"\"">> \o s \o <<"\"">>

\* the OSError of open(path, 'rb') on a path that names no regular file: a
\* directory, a path through a regular file, or nothing at all
RECURSIVE OpenErrorWalk(_, _, _)
OpenErrorWalk(comps, cur, f) ==
    IF cur \notin Dirs
    THEN IF AbsPath(cur) \in f /\ Len(comps) > 0
         THEN "NotADirectoryError" ELSE "FileNotFoundError"
    ELSE IF Len(comps) = 0 THEN "IsADirectoryError"
    ELSE IF comps[1] = <<>> \/ comps[1] = <<".">>
    THEN OpenErrorWalk(Tail(comps), cur, f)
    ELSE IF comps[1] = <<".", ".">>
    THEN OpenErrorWalk(Tail(comps),
                       IF Len(cur) = 0 THEN cur ELSE SubSeq(cur, 1, Len(cur) - 1),
                       f)
    ELSE OpenErrorWalk(Tail(comps), Append(cur, comps[1]), f)
OpenError(f, path) ==
    IF ~StartsWith(path, <<"/">>) THEN "FileNotFoundError"
    ELSE OpenErrorWalk(Split(path, "/"), <<>>, f)

\* the last line of add_etag_headers: '"{:s}"'.update(b64hash) calls .update
\* on a str, which has no such attribute
SetEtagHeader(headers, b64hash) ==
    [raise |-> "AttributeError", headers |-> headers]

\* the file is opened and read, and its digest encoded
HashOpened(headers, r, f, path) ==
    IF IsNone(r) THEN [raise |-> OpenError(f, path), headers |-> headers]
    ELSE SetEtagHeader(headers, b64encode(md5_digest(Content(Get(r)))))

\* HashedEtagWhiteNoise.add_etag_headers
add_etag_headers(headers, f, path) ==
    HashOpened(headers, ResolveFile(f, path), f, path)

\* HashedEtagWhiteNoise.StaticFile.__init__
HashedStaticFile(path, headers) ==
    [StaticFile(path, headers) EXCEPT
        !.cls = "HashedEtagWhiteNoise.StaticFile",
        !.etag = HeadersGet(headers, "etag")]

\* the call of add_etag_headers in get_static_file
AfterCors(h, f, path) ==
    IF h.raise # "" THEN [raise |-> h.raise]
    ELSE add_etag_headers(h.headers, f, path)

\* return self.StaticFile(path, headers)
NewHashedStaticFile(h, path) ==
    IF h.raise # "" THEN [raise |-> h.raise]
    ELSE [raise |-> "", value |-> HashedStaticFile(path, h.headers)]

\* HashedEtagWhiteNoise.get_static_file: [raise, value]
hashed_get_static_file(f, path, url) ==
    NewHashedStaticFile(
        AfterCors(AfterStat(add_stat_headers(<<>>, f, path), path, url), f, path),
        path)

\* HashedEtagWhiteNoise.StaticFile._if_none_match_etag
\* the loop over client_etags
AnyTagEquals(client_etags, etag) ==
    \E i \in 1..Len(client_etags) : Strip(client_etags[i]) = etag

if_none_match_etag(etag, inm_header) ==
    IF IsNone(etag) \/ Get(etag) = <<>> \/ inm_header = <<>> THEN FALSE
    ELSE AnyTagEquals(
             Split(IF StartsWith(inm_header, <<"W", "/">>)
                   THEN Drop(inm_header, 2) ELSE inm_header, ","),
             Get(etag))

\* the comparison with a slip: strictly later only
LastRequestedGT(last_requested, last_modified) ==
    IF IsNone(last_requested) \/ IsNone(last_modified)
    THEN [raise |-> "TypeError"]
    ELSE [raise |-> "",
          value |-> /\ Get(last_requested) # Get(last_modified)
                    /\ TupleGE(Get(last_requested), Get(last_modified))]

\* the comparison of file_not_modified's last line: a tuple against a tuple,
\* TypeError when either side is None
LastRequestedGE(last_requested, last_modified) ==
    IF IsNone(last_requested) \/ IsNone(last_modified)
    THEN [raise |-> "TypeError"]
    ELSE [raise |-> "", value |-> TupleGE(Get(last_requested), Get(last_modified))]

\* file_not_modified with a slip: a list that does not match falls back to
\* If-Modified-Since
file_not_modified_fallback(self, request_headers) ==
    IF /\ "HTTP_IF_NONE_MATCH" \in DOMAIN request_headers
       /\ \/ "HTTP_IF_MODIFIED_SINCE" \notin DOMAIN request_headers
          \/ if_none_match_etag(self.etag, request_headers["HTTP_IF_NONE_MATCH"])
    THEN [raise |-> "",
          value |-> if_none_match_etag(self.etag,
                                       request_headers["HTTP_IF_NONE_MATCH"])]
    ELSE IF "HTTP_IF_MODIFIED_SINCE" \notin DOMAIN request_headers
    THEN [raise |-> "", value |-> FALSE]
    ELSE LastRequestedGE(parsedate(request_headers["HTTP_IF_MODIFIED_SINCE"]),
                         self.last_modified)

\* HashedEtagWhiteNoise.StaticFile.file_not_modified: [raise, value]
file_not_modified(self, request_headers) ==
    IF "HTTP_IF_NONE_MATCH" \in DOMAIN request_headers
    THEN [raise |-> "",
          value |-> if_none_match_etag(self.etag,
                                       request_headers["HTTP_IF_NONE_MATCH"])]
    ELSE IF "HTTP_IF_MODIFIED_SINCE" \notin DOMAIN request_headers
    THEN [raise |-> "", value |-> FALSE]
    ELSE LastRequestedGE(parsedate(request_headers["HTTP_IF_MODIFIED_SINCE"]),
                         self.last_modified)

(* ------------------------------------------------------------------ *)
(* static_file.py: the parts of StaticFile the layer calls             *)
(* ------------------------------------------------------------------ *)

\* a comma-separated If-None-Match list holds the bare wildcard
HasWildcard(inm_header) == AnyTagEquals(Split(inm_header, ","), <<"*">>)

\* a parsed date is at or after another; an unparseable one counts as absent
ParsedGE(t, last_modified) ==
    ~IsNone(t) /\ ~IsNone(last_modified) /\ TupleGE(Get(t), Get(last_modified))

\* StaticFile.file_not_modified of static_file.py, for an entry that has no
\* validator: the wildcard of If-None-Match, else If-Modified-Since
StaticFile_file_not_modified(self, request_headers) ==
    IF "HTTP_IF_NONE_MATCH" \in DOMAIN request_headers
    THEN [raise |-> "",
          value |-> HasWildcard(request_headers["HTTP_IF_NONE_MATCH"])]
    ELSE IF "HTTP_IF_MODIFIED_SINCE" \notin DOMAIN request_headers
    THEN [raise |-> "", value |-> FALSE]
    ELSE [raise |-> "",
          value |-> ParsedGE(parsedate(request_headers["HTTP_IF_MODIFIED_SINCE"]),
                             self.last_modified)]

\* the headers a 304 keeps: the validators and the cache directives
NotModifiedHeaders(headers) ==
    SelectSeq(headers,
              LAMBDA p : LowerName(p[1]) \in {"etag", "Last-Modified", "Cache-Control"})

\* StaticFile.get_response(method, request_headers):
\* [raise, status, headers, file, evaluated]
\* open(path, 'rb') for the body of a 200 to a GET
OpenedResponse(self, opened) ==
    IF IsNone(opened) THEN [raise |-> "IOError", evaluated |-> TRUE]
    ELSE [raise |-> "", status |-> <<200, "OK">>, headers |-> self.headers,
          file |-> opened, evaluated |-> TRUE]

\* the response of get_response to a GET or HEAD, given file_not_modified's answer
ConditionalResponse(self, method, nm, f) ==
    IF nm.raise # "" THEN [raise |-> nm.raise, evaluated |-> TRUE]
    ELSE IF nm.value
    THEN [raise |-> "", status |-> <<304, "Not Modified">>,
          headers |-> NotModifiedHeaders(self.headers),
          file |-> None, evaluated |-> TRUE]
    ELSE IF method = "HEAD"
    THEN [raise |-> "", status |-> <<200, "OK">>,
          headers |-> self.headers, file |-> None, evaluated |-> TRUE]
    ELSE OpenedResponse(self, ResolveFile(f, self.path))

\* self.file_not_modified(request_headers) of the entry's class
self_file_not_modified(self, request_headers) ==
    IF self.cls = "StaticFile"
    THEN StaticFile_file_not_modified(self, request_headers)
    ELSE file_not_modified(self, request_headers)

get_response(self, method, request_headers, f) ==
    IF method \notin {"GET", "HEAD"}
    THEN [raise |-> "", status |-> <<405, "Method Not Allowed">>,
          headers |-> <<>>, file |-> None, evaluated |-> FALSE]
    ELSE ConditionalResponse(self, method,
                             self_file_not_modified(self, request_headers), f)

(* ------------------------------------------------------------------ *)
(* utils.py                                                            *)
(* ------------------------------------------------------------------ *)

\* utils.ensure_leading_trailing_slash(prefix): prefix is None or a string
ensure_leading_trailing_slash(prefix) ==
    LET path == IF IsNone(prefix) THEN <<>> ELSE StripSlashes(Get(prefix))
    IN IF Len(path) = 0 THEN <<"/">> ELSE <<"/">> \o path \o <<"/">>

\* utils.decode_path_info(path_info): the modelled urls are ASCII, which the
\* latin-1 / utf-8 round trip leaves as they are
decode_path_info(path_info) == path_info

(* ------------------------------------------------------------------ *)
(* WhiteNoise: lookup, registration, dispatch                          *)
(* ------------------------------------------------------------------ *)

\* self.get_static_file of the class in use
self_get_static_file(isHashed, f, path, url) ==
    IF isHashed THEN hashed_get_static_file(f, path, url)
    ELSE get_static_file(f, path, url)

\* the loop of WhiteNoise.find_file over self.directories: [raise, value]
RECURSIVE find_in_directories(_, _, _, _)
\* the try / except MissingFileError around get_static_file's result r
TryDirectory(r, dirs, url, isHashed, f) ==
    IF r.raise = "" THEN [raise |-> "", value |-> Some(r.value)]
    ELSE IF r.raise = "MissingFileError"
    THEN find_in_directories(Tail(dirs), url, isHashed, f)
    ELSE [raise |-> r.raise]
find_in_directories(dirs, url, isHashed, f) ==
    IF Len(dirs) = 0 THEN [raise |-> "", value |-> None]
    ELSE IF StartsWith(url, dirs[1][2])
    THEN TryDirectory(
             self_get_static_file(isHashed, f,
                 path_join(dirs[1][1], Drop(url, Len(dirs[1][2]))), url),
             dirs, url, isHashed, f)
    ELSE find_in_directories(Tail(dirs), url, isHashed, f)

\* WhiteNoise.find_file(url): [raise, value], value None or an entry
find_file(url, dirs, isHashed, f) ==
    IF Len(url) = 0 \/ url[Len(url)] = "/" THEN [raise |-> "", value |-> None]
    ELSE IF normpath(url) # url THEN [raise |-> "", value |-> None]
    ELSE find_in_directories(dirs, url, isHashed, f)

\* the application WhiteNoise wraps: wsgiref's demo_app, which answers 200
\* with a greeting and a dump of the environ it was given
application(environ) ==
    [by |-> "application", status_line |-> <<200, "OK">>,
     headers |-> <<<<"Content-Type", <<"text/plain; charset=utf-8">>>>>>,
     body |-> <<"Hello world!", environ>>, exc |-> ""]

\* WhiteNoise.serve(static_file, environ, start_response): the response the
\* transport sends, a server error when the call raises
\* start_response(status_line, list(response.headers)) and the body
StartResponse(response) ==
    IF response.raise # ""
    THEN [by |-> "server", status_line |-> <<500, "Internal Server Error">>,
          headers |-> <<>>, body |-> <<>>, exc |-> response.raise,
          evaluated |-> response.evaluated]
    ELSE [by |-> "layer", status_line |-> response.status,
          headers |-> response.headers,
          body |-> IF IsNone(response.file) THEN <<>>
                   ELSE Content(Get(response.file)),
          exc |-> "", evaluated |-> response.evaluated]

\* serve with a slip: the request method is not passed on
serveAnyMethod(static_file, environ, f) ==
    StartResponse(get_response(static_file, "GET", environ, f))

serve(static_file, environ, f) ==
    StartResponse(get_response(static_file, environ["REQUEST_METHOD"], environ, f))

\* WhiteNoise.__call__(environ, start_response):
\* [lookup, app_calls, response]
\* self.files.get(path)
files_get(reg, path) ==
    [raise |-> "", value |-> IF path \in DOMAIN reg THEN Some(reg[path]) ELSE None]

\* Dispatch with a slip: the application is handed the normalised path
DispatchNormalised(static_file, environ, f) ==
    IF static_file.raise # ""
    THEN [lookup |-> static_file, app_calls |-> <<>>,
          response |-> [by |-> "server",
                        status_line |-> <<500, "Internal Server Error">>,
                        headers |-> <<>>, body |-> <<>>,
                        exc |-> static_file.raise, evaluated |-> FALSE]]
    ELSE IF IsNone(static_file.value)
    THEN [lookup |-> static_file,
          app_calls |-> <<[environ EXCEPT !.PATH_INFO = normpath(@)]>>,
          response |-> application([environ EXCEPT !.PATH_INFO = normpath(@)])
                       @@ [evaluated |-> FALSE]]
    ELSE [lookup |-> static_file, app_calls |-> <<>>,
          response |-> serve(Get(static_file.value), environ, f)]

\* the second half of __call__: pass through, or serve the entry found
Dispatch(static_file, environ, f) ==
    IF static_file.raise # ""
    THEN [lookup |-> static_file, app_calls |-> <<>>,
          response |-> [by |-> "server",
                        status_line |-> <<500, "Internal Server Error">>,
                        headers |-> <<>>, body |-> <<>>,
                        exc |-> static_file.raise, evaluated |-> FALSE]]
    ELSE IF IsNone(static_file.value)
    THEN [lookup |-> static_file, app_calls |-> <<environ>>,
          response |-> application(environ) @@ [evaluated |-> FALSE]]
    ELSE [lookup |-> static_file, app_calls |-> <<>>,
          response |-> serve(Get(static_file.value), environ, f)]

Call(environ, isAuto, isHashed, dirs, reg, f) ==
    Dispatch(IF isAuto
             THEN find_file(decode_path_info(environ["PATH_INFO"]), dirs, isHashed, f)
             ELSE files_get(reg, decode_path_info(environ["PATH_INFO"])),
             environ, f)

\* the directory a root names, as components, or None
WalkedDir(w) == IF ~IsNone(w) /\ Get(w) \in Dirs THEN w ELSE None
RootDir(root) ==
    IF ~StartsWith(root, <<"/">>) THEN None
    ELSE WalkedDir(Walk(Split(root, "/"), <<>>))

\* the absolute path of a directory, with the separator after it
DirPrefix(d) == IF Len(d) = 0 THEN <<"/">> ELSE AbsPath(d) \o <<"/">>

\* the paths os.walk(root) and os.path.join(directory, filename) give for the
\* regular files below the directory d
JoinedBelow(f, root, d) ==
    {path_join(root, Drop(p, Len(DirPrefix(d)))) :
        p \in {q \in f : StartsWith(q, DirPrefix(d))}}

\* the files os.walk(root) finds in filesystem state f; nothing when root
\* is no directory
walk_files(f, root) ==
    IF IsNone(RootDir(root)) THEN {} ELSE JoinedBelow(f, root, Get(RootDir(root)))

\* the non-empty components of a normalised absolute path
PathList(path) == SelectSeq(Split(normpath(path), "/"), LAMBDA c : Len(c) > 0)

\* the length of the common prefix of two component lists
RECURSIVE CommonLen(_, _)
CommonLen(a, b) ==
    IF Len(a) = 0 \/ Len(b) = 0 \/ a[1] # b[1] THEN 0
    ELSE 1 + CommonLen(Tail(a), Tail(b))

\* the relative path of path_list from start_list
RelList(start_list, path_list, i) ==
    [k \in 1..(Len(start_list) - i) |-> <<".", ".">>]
        \o SubSeq(path_list, i + 1, Len(path_list))

\* os.path.relpath(path, root) of two absolute paths
relpath(path, root) ==
    IF Len(RelList(PathList(root), PathList(path),
                   CommonLen(PathList(root), PathList(path)))) = 0
    THEN <<".">>
    ELSE StrJoin(RelList(PathList(root), PathList(path),
                         CommonLen(PathList(root), PathList(path))), <<"/">>)

\* s.replace('\\', '/')
ReplaceBackslash(s) == [i \in 1..Len(s) |-> IF s[i] = "\\" THEN "/" ELSE s[i]]

\* the directory part of a path, as components
DirOf(path) == SubSeq(PathList(path), 1, Len(PathList(path)) - 1)

\* a is a proper prefix of b
ProperPrefix(a, b) == Len(a) < Len(b) /\ SubSeq(b, 1, Len(a)) = a

\* the orders in which os.walk can yield a set of files: the filesystem
\* decides the order within a directory; a directory's files come together
\* and before those of the directories below it
walk_orders(listing) ==
    {o \in [1..Cardinality(listing) -> listing] :
        /\ \A i, j \in 1..Cardinality(listing) : i # j => o[i] # o[j]
        /\ \A i, j \in 1..Cardinality(listing) :
               i < j => ~ProperPrefix(DirOf(o[j]), DirOf(o[i]))
        /\ \A i, j, k \in 1..Cardinality(listing) :
               (i < j /\ j < k /\ DirOf(o[i]) = DirOf(o[k]))
                   => DirOf(o[j]) = DirOf(o[i])}

\* WhiteNoise.update_files_dictionary over the files in the order todo:
\* [raise, files]; the walk stops at the first file whose entry cannot be built
RECURSIVE update_files_dictionary(_, _, _, _, _, _)
\* self.files[url] = r, and on to the next file of the walk
StoreEntry(r, path, url, todo, root, prefix, reg, isHashed, f) ==
    IF r.raise # "" THEN [raise |-> r.raise, files |-> reg]
    ELSE update_files_dictionary(
             Tail(todo), root, prefix,
             [u \in DOMAIN reg \cup {url} |-> IF u = url THEN r.value ELSE reg[u]],
             isHashed, f)
\* one file of the walk
WalkStep(path, url, todo, root, prefix, reg, isHashed, f) ==
    StoreEntry(self_get_static_file(isHashed, f, path, url),
               path, url, todo, root, prefix, reg, isHashed, f)
update_files_dictionary(todo, root, prefix, reg, isHashed, f) ==
    IF Len(todo) = 0 THEN [raise |-> "", files |-> reg]
    ELSE WalkStep(Head(todo), prefix \o ReplaceBackslash(relpath(Head(todo), root)),
                  todo, root, prefix, reg, isHashed, f)

(* ------------------------------------------------------------------ *)
(* The inputs of the model                                             *)
(* ------------------------------------------------------------------ *)

EmptyFn == [x \in {} |-> x]

\* request urls: every string over /, . and a of at most MaxUrlLen characters
Urls == StringsUpTo({"/", ".", "a"}, MaxUrlLen)

Methods == {"GET", "HEAD", "POST"}

\* the prefix argument of add_files: absent, 'a', '/a/'
PrefixArgs == {None, Some(<<"a">>), Some(<<"/", "a", "/">>)}

\* the validator of the entries served directly, and another tag
TagV == Quoted(<<"v">>)
TagX == Quoted(<<"x">>)

\* the tokens If-None-Match lists are made of: the validator strong, weak and
\* padded (a tab before, a blank after), another tag strong and weak, the
\* wildcard, an unquoted word, and the empty token (last in a list: a
\* dangling comma)
Tokens ==
    {TagV, <<"W", "/">> \o TagV, <<"\t">> \o TagV \o <<" ">>,
     TagX, <<"W", "/">> \o TagX, <<"*">>, <<"x">>, <<>>}

\* the comma-separated lists of 1..n tokens
RECURSIVE TokenLists(_)
TokenLists(n) ==
    IF n = 1 THEN {<<t>> : t \in Tokens}
    ELSE TokenLists(n - 1)
         \cup {Append(l, t) : l \in {k \in TokenLists(n - 1) : Len(k) = n - 1},
                              t \in Tokens}
InmHeaders == {StrJoin(l, <<",">>) : l \in TokenLists(MaxTags)}

\* If-Modified-Since values: dates around the modelled modification times,
\* across minute, hour, day, month and year boundaries, and two values that
\* are no dates
ImsTimes == {2, 58, 59, 60, 61, 3599, 3600, 86400, 2678400, 31536000, 986989626}
ImsHeaders == {formatdate(t) : t \in ImsTimes} \cup {<<"x">>, <<>>}

\* the conditional headers of a request to the WhiteNoise layer
CondHeaders ==
    {EmptyFn,
     [HTTP_IF_MODIFIED_SINCE |-> formatdate(59)],
     [HTTP_IF_NONE_MATCH |-> <<"*">>]}

\* the conditional headers of a request served from an entry directly:
\* every list alone, every date alone, and every date with every one-token list
CondHeadersDirect ==
    {EmptyFn}
    \cup {[HTTP_IF_NONE_MATCH |-> h] : h \in InmHeaders}
    \cup {[HTTP_IF_MODIFIED_SINCE |-> t] : t \in ImsHeaders}
    \cup {[HTTP_IF_NONE_MATCH |-> h, HTTP_IF_MODIFIED_SINCE |-> t] :
             h \in Tokens, t \in ImsHeaders}

\* the environ of a request
Environ(url, method, cond) ==
    [PATH_INFO |-> url, REQUEST_METHOD |-> method] @@ cond

(* ------------------------------------------------------------------ *)
(* The state                                                           *)
(* ------------------------------------------------------------------ *)

VARIABLES
    autorefresh,   \* self.autorefresh
    hashed,        \* the class is HashedEtagWhiteNoise
    fs,            \* the regular files that exist
    directories,   \* self.directories: <<root, prefix>>, latest first
    files,         \* self.files: url -> entry
    registered,    \* the add_files calls so far, in call order
    add_result,    \* the exception the latest add_files raised, "" if none
    request,       \* the environ of the latest request, None before any
    lookup,        \* what the latest request's lookup gave: [raise, value]
    app_calls,     \* the environs the wrapped application was called with
    response       \* the response of the latest request

vars == <<autorefresh, hashed, fs, directories, files, registered, add_result,
          request, lookup, app_calls, response>>

\* WhiteNoise(application, autorefresh=...) before any add_files
Init ==
    /\ autorefresh \in BOOLEAN
    /\ hashed = FALSE
    /\ fs \in SUBSET FileUniverse
    /\ directories = <<>>
    /\ files = EmptyFn
    /\ registered = <<>>
    /\ add_result = ""
    /\ request = None
    /\ lookup = None
    /\ app_calls = <<>>
    /\ response = None

\* HashedEtagWhiteNoise(application, autorefresh=...) before any add_files
InitHashed ==
    /\ autorefresh \in BOOLEAN
    /\ hashed = TRUE
    /\ fs \in SUBSET FileUniverse
    /\ directories = <<>>
    /\ files = EmptyFn
    /\ registered = <<>>
    /\ add_result = ""
    /\ request = None
    /\ lookup = None
    /\ app_calls = <<>>
    /\ response = None

\* WhiteNoise.add_files(root, prefix)
\* the outcome r of update_files_dictionary on self.files
Updated(r) ==
    /\ files' = r.files
    /\ add_result' = r.raise
    /\ directories' = directories

\* AddMount with a slip: the mount is appended, not inserted first
AddMountLast(root, prefix) ==
    /\ registered' = Append(registered, <<root, prefix>>)
    /\ IF autorefresh
       THEN /\ directories' = Append(directories, <<root, prefix>>)
            /\ files' = files
            /\ add_result' = ""
       ELSE \E order \in walk_orders(walk_files(fs, root)) :
                Updated(update_files_dictionary(order, root, prefix, files,
                                                hashed, fs))

\* add_files once the prefix is normalised
AddMount(root, prefix) ==
    /\ registered' = Append(registered, <<root, prefix>>)
    /\ IF autorefresh
       THEN /\ directories' = <<<<root, prefix>>>> \o directories
            /\ files' = files
            /\ add_result' = ""
       ELSE \E order \in walk_orders(walk_files(fs, root)) :
                Updated(update_files_dictionary(order, root, prefix, files,
                                                hashed, fs))

AddFiles(root, prefixArg) ==
    /\ Len(registered) < MaxMounts
    /\ AddMount(root, ensure_leading_trailing_slash(prefixArg))
    /\ UNCHANGED <<autorefresh, hashed, fs, request, lookup, app_calls,
                   response>>

\* one request through WhiteNoise.__call__
\* the outcome r of __call__ on environ
Handled(environ, r) ==
    /\ request' = Some(environ)
    /\ lookup' = Some(r.lookup)
    /\ app_calls' = r.app_calls
    /\ response' = Some(r.response)
    /\ UNCHANGED <<autorefresh, hashed, fs, directories, files, registered,
                   add_result>>

Request(url, method, cond) ==
    Handled(Environ(url, method, cond),
            Call(Environ(url, method, cond), autorefresh, hashed,
                 directories, files, fs))

\* the transport has sent the response; the layer waits for the next request
Finish ==
    /\ request # None
    /\ request' = None
    /\ lookup' = None
    /\ app_calls' = <<>>
    /\ response' = None
    /\ UNCHANGED <<autorefresh, hashed, fs, directories, files, registered,
                   add_result>>

\* the layer is configured and asked while no response is being sent
Idle == request = None

Next ==
    \/ /\ Idle
       /\ \E root \in Roots, prefixArg \in PrefixArgs : AddFiles(root, prefixArg)
    \/ /\ Idle
       /\ \E url \in Urls, method \in Methods, cond \in CondHeaders :
              Request(url, method, cond)
    \/ Finish

\* the WhiteNoise layer
Spec == Init /\ [][Next]_vars

\* the HashedEtagWhiteNoise layer
SpecHashed == InitHashed /\ [][Next]_vars

(* ------------------------------------------------------------------ *)
(* An entry of HashedEtagWhiteNoise.StaticFile served directly          *)
(* ------------------------------------------------------------------ *)

\* the entry's url
EntryUrl == <<"/", "a">>

\* the files an entry is made of, and its 'etag' header: absent, or TagV
EntryPaths == {<<"/", "r", "/", "a">>, <<"/", "q", "/", "a">>}
EtagChoices == {None, Some(TagV)}

\* HashedEtagWhiteNoise.StaticFile(path, headers): the headers of the file's
\* stat, type, cache and CORS steps, and the given 'etag' header
DirectEntry(path, etag) ==
    HashedStaticFile(path,
        IF IsNone(etag)
        THEN AfterStat(add_stat_headers(<<>>, FileUniverse, path), path, EntryUrl).headers
        ELSE HeadersSet(
                 AfterStat(add_stat_headers(<<>>, FileUniverse, path), path,
                           EntryUrl).headers,
                 "etag", Get(etag)))

\* a HashedEtagWhiteNoise that holds no mounts
InitDirect ==
    /\ autorefresh = FALSE
    /\ hashed = TRUE
    /\ fs = FileUniverse
    /\ directories = <<>>
    /\ files = EmptyFn
    /\ registered = <<>>
    /\ add_result = ""
    /\ request = None
    /\ lookup = None
    /\ app_calls = <<>>
    /\ response = None

\* self.serve(static_file, environ, start_response) on an entry
Served(entry, environ) ==
    Handled(environ,
            [lookup |-> [raise |-> "", value |-> Some(entry)],
             app_calls |-> <<>>,
             response |-> serve(entry, environ, fs)])

ServeDirect(path, etag, method, cond) ==
    Served(DirectEntry(path, etag), Environ(EntryUrl, method, cond))

NextDirect ==
    \/ /\ Idle
       /\ \E path \in EntryPaths, etag \in EtagChoices, method \in Methods,
              cond \in CondHeadersDirect : ServeDirect(path, etag, method, cond)
    \/ Finish

\* requests served from entries of HashedEtagWhiteNoise.StaticFile
SpecDirect == InitDirect /\ [][NextDirect]_vars

(* ------------------------------------------------------------------ *)
(* A static build over a directory that loses files during the walk    *)
(* ------------------------------------------------------------------ *)

\* the regular files that may exist while a static layer is built: a second
\* file /r/b beside /r/a
WalkUniverse == FileUniverse \cup {<<"/", "r", "/", "b">>}

\* a WhiteNoise in static mode before add_files
InitWalk ==
    /\ autorefresh = FALSE
    /\ hashed = FALSE
    /\ fs \in SUBSET WalkUniverse
    /\ directories = <<>>
    /\ files = EmptyFn
    /\ registered = <<>>
    /\ add_result = ""
    /\ request = None
    /\ lookup = None
    /\ app_calls = <<>>
    /\ response = None

\* add_files(root, prefix) in static mode while another process removes
\* files: os.walk lists the files of root in one of its orders, the files of
\* gone are removed before the loop stats them, those of late after the loop
\* has built their entry or after it has stopped
AddFilesRacing(root, prefixArg, gone, late) ==
    /\ Len(registered) < MaxMounts
    /\ gone \subseteq walk_files(fs, root)
    /\ late \subseteq walk_files(fs, root) \ gone
    /\ fs' = fs \ (gone \cup late)
    /\ registered' = Append(registered, <<root, ensure_leading_trailing_slash(prefixArg)>>)
    /\ \E order \in walk_orders(walk_files(fs, root)) :
           Updated(update_files_dictionary(order, root,
                                           ensure_leading_trailing_slash(prefixArg),
                                           files, hashed, fs \ gone))
    /\ UNCHANGED <<autorefresh, hashed, request, lookup, app_calls, response>>

NextWalk ==
    \/ /\ Idle
       /\ \E root \in Roots, prefixArg \in PrefixArgs,
             gone \in SUBSET WalkUniverse, late \in SUBSET WalkUniverse :
              AddFilesRacing(root, prefixArg, gone, late)
    \/ /\ Idle
       /\ \E url \in {<<"/", "a">>, <<"/", "b">>}, method \in {"GET"} :
              Request(url, method, EmptyFn)
    \/ Finish

\* static builds of the WhiteNoise layer over a changing directory
SpecWalk == InitWalk /\ [][NextWalk]_vars

(* ------------------------------------------------------------------ *)
(* Properties                                                          *)
(* ------------------------------------------------------------------ *)

\* the latest request has been handled and its lookup did not raise
Answered == request # None /\ Get(lookup).raise = ""
ReqUrl == Get(request)["PATH_INFO"]
ReqMethod == Get(request)["REQUEST_METHOD"]
Found == Get(lookup).value
Status == Get(response).status_line[1]

\* C1: a request whose lookup yields no entry, in static or dynamic mode and
\* for any method, is answered by the wrapped application, called exactly
\* once with the request as it came in; its status, headers and body are the
\* response.
C1_PassThrough ==
    (Answered /\ IsNone(Found)) =>
        /\ app_calls = <<Get(request)>>
        /\ Get(response).by = "application"
        /\ Get(response).status_line = application(Get(request)).status_line
        /\ Get(response).headers = application(Get(request)).headers
        /\ Get(response).body = application(Get(request)).body

\* C1 witness: in dynamic mode with a mount registered, a POST to a url that
\* is not normalised found no entry and was passed through
C1_Witness ==
    /\ Answered /\ IsNone(Found)
    /\ autorefresh /\ Len(directories) > 0
    /\ ReqMethod = "POST" /\ normpath(ReqUrl) # ReqUrl
    /\ Get(response).by = "application"

\* the url has a '.' or '..' segment, or two separators in a row
HasDotSegment(url) ==
    \E i \in 1..Len(Split(url, "/")) :
        Split(url, "/")[i] \in {<<".">>, <<".", ".">>}
HasRedundantSeparator(url) ==
    \E i \in 1..(Len(url) - 1) : url[i] = "/" /\ url[i + 1] = "/"

\* the path lies under the root directory
UnderRoot(path, root) == StartsWith(path, root \o <<"/">>)

\* C2: in dynamic mode resolve returns no match for a url with a '.' or '..'
\* segment or a redundant separator, and every resolved file path lies under
\* the root of a mount whose prefix matched.
C2_NoTraversal ==
    (Answered /\ autorefresh) =>
        /\ (HasDotSegment(ReqUrl) \/ HasRedundantSeparator(ReqUrl)) => IsNone(Found)
        /\ ~IsNone(Found) =>
               \E i \in 1..Len(directories) :
                   /\ StartsWith(ReqUrl, directories[i][2])
                   /\ UnderRoot(Get(Found).path, directories[i][1])

\* the entity-tag of a list token: whitespace and a weak prefix removed
TagOf(tok) ==
    IF StartsWith(Strip(tok), <<"W", "/">>) THEN Drop(Strip(tok), 2) ELSE Strip(tok)

\* the request carries the header
HasInm == "HTTP_IF_NONE_MATCH" \in DOMAIN Get(request)
HasIms == "HTTP_IF_MODIFIED_SINCE" \in DOMAIN Get(request)
InmTokens == Split(Get(request)["HTTP_IF_NONE_MATCH"], ",")

\* C3: for an entry with validator v, a GET whose If-None-Match list holds
\* v at any position, weak or strong, padded or not, is answered 304 with an
\* empty body and ETag v; a list of other tags only is answered 200 with the
\* file's content.
C3_ListedTagNotModified ==
    (Answered /\ ReqMethod = "GET" /\ HasInm /\ ~IsNone(Found)
              /\ ~IsNone(Get(Found).etag)) =>
        /\ (\E i \in 1..Len(InmTokens) : TagOf(InmTokens[i]) = Get(Get(Found).etag))
               => /\ Status = 304
                  /\ Get(response).body = <<>>
                  /\ HeadersGet(Get(response).headers, "ETag") = Get(Found).etag
        /\ (\A i \in 1..Len(InmTokens) :
                TagOf(InmTokens[i]) \notin {Get(Get(Found).etag), <<"*">>})
               => /\ Status = 200
                  /\ Get(response).body = Content(Get(Found).path)

\* C5: a request with a method other than GET and HEAD whose url has an entry
\* is answered 405 with an empty body by the layer, without evaluating the
\* conditional headers and without calling the application; with no entry it
\* is passed through.
C5_MethodNotAllowed ==
    (Answered /\ ReqMethod \notin {"GET", "HEAD"}) =>
        IF IsNone(Found)
        THEN Get(response).by = "application" /\ app_calls = <<Get(request)>>
        ELSE /\ Get(response).by = "layer"
             /\ Status = 405
             /\ Get(response).body = <<>>
             /\ ~Get(response).evaluated
             /\ app_calls = <<>>

\* C5 witness: a POST with If-Modified-Since to a registered url got 405
C5_Witness ==
    /\ Answered /\ ReqMethod = "POST" /\ HasIms
    /\ ~IsNone(Found) /\ Status = 405

\* the reverse of a sequence
Reverse(q) == [i \in 1..Len(q) |-> q[Len(q) + 1 - i]]

\* the file a mount <<root, prefix>> holds for the url, None when the prefix
\* does not match or no regular file is there
CandidatePath(m, url) == path_join(m[1], Drop(url, Len(m[2])))
MountHasFile(m, url) ==
    StartsWith(url, m[2]) /\ ~IsNone(ResolveFile(fs, CandidatePath(m, url)))

\* find_file's two rejections: the empty url, a trailing separator, a url
\* that is not its own normal form
Rejected(url) ==
    Len(url) = 0 \/ url[Len(url)] = "/" \/ normpath(url) # url

\* the latest registered mount that holds a file for the url
LatestHit(url) ==
    CHOOSE j \in 1..Len(registered) :
        /\ MountHasFile(registered[j], url)
        /\ \A k \in (j + 1)..Len(registered) : ~MountHasFile(registered[k], url)

\* C6: in dynamic mode the mounts are kept latest first, and a url that
\* find_file does not reject resolves to the entry of the most recently
\* registered mount whose prefix matches and that holds a regular file for
\* it; mounts without the file are skipped, and there is no match only when
\* every mount is skipped.
C6_LatestMountWins ==
    autorefresh =>
        /\ directories = Reverse(registered)
        /\ (request # None /\ ~Rejected(ReqUrl)) =>
              /\ Get(lookup).raise = ""
              /\ IF \E j \in 1..Len(registered) : MountHasFile(registered[j], ReqUrl)
                 THEN /\ ~IsNone(Found)
                      /\ Get(Found).path =
                             CandidatePath(registered[LatestHit(ReqUrl)], ReqUrl)
                      /\ Get(Found) =
                             get_static_file(fs, Get(Found).path, ReqUrl).value
                 ELSE IsNone(Found)

\* C6 witness: two mounts match the url, the later one holds no file for it,
\* and the entry of the earlier one was found
C6_Witness ==
    /\ autorefresh /\ Answered /\ Len(registered) = 2
    /\ StartsWith(ReqUrl, registered[2][2])
    /\ ~MountHasFile(registered[2], ReqUrl)
    /\ MountHasFile(registered[1], ReqUrl)
    /\ ~IsNone(Found)
    /\ Get(Found).path = CandidatePath(registered[1], ReqUrl)

\* the validator of a file: the quoted base64 text of its content's digest
ExpectedValidator(path) == Quoted(b64encode(md5_digest(Content(path))))
HasExpectedValidator(entry) ==
    /\ entry.etag = Some(ExpectedValidator(entry.path))
    /\ HeadersGet(entry.headers, "ETag") = Some(ExpectedValidator(entry.path))

\* C7: in hashed-validator mode building the entry of an existing regular
\* file succeeds, and the entry's validator and ETag header are the quoted
\* base64 text of the digest of the file's content.
C7_HashedEntryBuilt ==
    /\ add_result = ""
    /\ \A u \in DOMAIN files : HasExpectedValidator(files[u])
    /\ (request # None /\ autorefresh) =>
           /\ Get(lookup).raise = ""
           /\ ~IsNone(Found) => HasExpectedValidator(Get(Found))

\* the days from 1970-01-01 to a civil date
DaysFromCivil(y, m, d) ==
    LET yy == IF m <= 2 THEN y - 1 ELSE y
        era == yy \div 400
        yoe == yy - era * 400
        mp == IF m > 2 THEN m - 3 ELSE m + 9
        doy == (153 * mp + 2) \div 5 + d - 1
        doe == yoe * 365 + yoe \div 4 - yoe \div 100 + doy
    IN era * 146097 + doe - 719468

\* the seconds since the epoch an HTTP date text stands for
Timegm(date) ==
    DaysFromCivil(date[4], date[3], date[2]) * 86400
        + date[5] * 3600 + date[6] * 60 + date[7]

ReqIms == Get(request)["HTTP_IF_MODIFIED_SINCE"]
EntryLastModified == Get(HeadersGet(Get(Found).headers, "Last-Modified"))
ConditionalMethod == ReqMethod \in {"GET", "HEAD"}

\* C4: for an entry without a validator and a GET or HEAD without
\* If-None-Match, a parseable If-Modified-Since t is answered 304 exactly
\* when t, in whole seconds, is at or after the entry's Last-Modified, and
\* 200 when it is earlier.
C4_ModifiedSince ==
    (Answered /\ ConditionalMethod /\ ~IsNone(Found) /\ IsNone(Get(Found).etag)
              /\ ~HasInm /\ HasIms /\ ~IsNone(parsedate(ReqIms))) =>
        /\ Get(response).by = "layer"
        /\ Status = IF Timegm(ReqIms) >= Timegm(EntryLastModified)
                    THEN 304 ELSE 200

\* C4 witness: If-Modified-Since equal to the Last-Modified of an entry
\* without validator was answered 304
C4_Witness ==
    /\ Answered /\ ReqMethod = "GET" /\ ~IsNone(Found) /\ IsNone(Get(Found).etag)
    /\ ~HasInm /\ HasIms /\ ReqIms = EntryLastModified
    /\ Status = 304

\* the request without its If-Modified-Since header
WithoutIms(environ) ==
    [k \in DOMAIN environ \ {"HTTP_IF_MODIFIED_SINCE"} |-> environ[k]]

\* If-None-Match present: the answer is that of the request without
\* If-Modified-Since
InmAloneDecides ==
    (Answered /\ ~IsNone(Found) /\ HasInm) =>
        Get(response) = serve(Get(Found), WithoutIms(Get(request)), fs)

\* C8 as stated: If-Modified-Since counts only when If-None-Match is absent
\* and the entry has no validator; with If-None-Match the tags alone decide,
\* and an entry with a validator asked without If-None-Match is answered 200
\* for every If-Modified-Since date, one at or after Last-Modified included.
C8_Original ==
    /\ InmAloneDecides
    /\ (Answered /\ ConditionalMethod /\ ~IsNone(Found)
                 /\ ~IsNone(Get(Found).etag) /\ ~HasInm
                 /\ HasIms /\ ~IsNone(parsedate(ReqIms))) => Status = 200

\* C8: If-Modified-Since counts only when If-None-Match is absent: with
\* If-None-Match the tags alone decide for every If-Modified-Since value;
\* without it a parseable If-Modified-Since t is answered 304 exactly when t
\* is at or after Last-Modified, whether or not the entry has a validator,
\* and a request without either header is answered 200.
C8_ModifiedSinceFallback ==
    /\ InmAloneDecides
    /\ (Answered /\ ConditionalMethod /\ ~IsNone(Found) /\ ~HasInm) =>
           /\ (HasIms /\ ~IsNone(parsedate(ReqIms))) =>
                  Status = IF Timegm(ReqIms) >= Timegm(EntryLastModified)
                           THEN 304 ELSE 200
           /\ ~HasIms => Status = 200

\* C8 witness: an entry with a validator, asked without If-None-Match and
\* with an If-Modified-Since later than its Last-Modified, was answered 304
C8_Witness ==
    /\ Answered /\ ConditionalMethod /\ ~IsNone(Found)
    /\ ~IsNone(Get(Found).etag) /\ ~HasInm /\ HasIms
    /\ ~IsNone(parsedate(ReqIms))
    /\ Timegm(ReqIms) > Timegm(EntryLastModified)
    /\ Status = 304

\* C9: for an entry with a validator, an If-None-Match list that holds a
\* bare '*' token is answered 304, whatever the other tokens are.
C9_Wildcard ==
    (Answered /\ ConditionalMethod /\ ~IsNone(Found)
              /\ ~IsNone(Get(Found).etag) /\ HasInm
              /\ \E i \in 1..Len(InmTokens) : Strip(InmTokens[i]) = <<"*">>) =>
        Status = 304

\* a token that is neither an entity-tag, weak or strong, nor the wildcard
IsEntityTag(t) == Len(t) >= 2 /\ t[1] = "\"" /\ t[Len(t)] = "\""
Malformed(tok) == ~IsEntityTag(TagOf(tok)) /\ Strip(tok) # <<"*">>

\* C10: evaluating the conditional headers never raises: a request with an
\* If-Modified-Since that is no date, or with an If-None-Match made of
\* malformed or empty tokens, is answered 200, and no conditional request is
\* answered with a server error.
C10_MalformedTolerated ==
    (Answered /\ ConditionalMethod /\ ~IsNone(Found)) =>
        /\ Get(response).by # "server"
        /\ (~HasInm /\ HasIms /\ IsNone(parsedate(ReqIms))) => Status = 200
        /\ (HasInm /\ \A i \in 1..Len(InmTokens) : Malformed(InmTokens[i]))
               => Status = 200

\* the url update_files_dictionary gives a file of the walk
WalkUrl(p, root, prefix) == prefix \o ReplaceBackslash(relpath(p, root))

\* the mapping reg after the files of kept, regular files of f, are stored
BuiltFrom(reg, kept, root, prefix, f) ==
    [u \in DOMAIN reg \cup {WalkUrl(p, root, prefix) : p \in kept} |->
        IF \E p \in kept : u = WalkUrl(p, root, prefix)
        THEN get_static_file(
                 f, CHOOSE p \in kept : u = WalkUrl(p, root, prefix), u).value
        ELSE reg[u]]

\* C11: in static mode, when files listed by the walk of add_files are no
\* longer regular files at the time their headers are computed, add_files
\* completes without raising, and the mapping afterwards is the one before
\* it plus every listed file but some of those that are gone: the urls of
\* the vanished files are left out and every other file is registered.
C11_VanishedFileSkipped ==
    [][(~autorefresh /\ Len(registered') = Len(registered) + 1) =>
          /\ add_result' = ""
          /\ \E gone \in SUBSET (walk_files(fs, registered'[Len(registered')][1]) \ fs') :
                 files' = BuiltFrom(
                              files,
                              walk_files(fs, registered'[Len(registered')][1]) \ gone,
                              registered'[Len(registered')][1],
                              registered'[Len(registered')][2],
                              fs)]_vars

====
